---- MODULE Spec2Model ----
(***************************************************************************)
(* Model of indevolt_api/client.py: the UDP discovery run                  *)
(* (DeviceDiscoveryProtocol, async_discover) and the HTTP RPC client       *)
(* (IndevoltAPI).                                                          *)
(***************************************************************************)
EXTENDS Integers, Sequences, FiniteSets, TLC

VARIABLES
    pc,            \* position of the async_discover coroutine
    sock,          \* the UDP socket: "none", "open", "closed"
    transport,     \* the datagram transport: "none", "open", "closed"
    timerFired,    \* the asyncio.sleep(timeout) timer has expired
    probes,        \* number of DISCOVERY_MESSAGE broadcasts handed to sendto
    devices,       \* protocol.devices
    received_ips,  \* protocol.received_ips
    outcome,       \* "running", "returned", "raised"
    result,        \* the list returned to the caller (when outcome = "returned")
    raised,        \* the exception that left async_discover (when "raised")
    first,         \* history: first datagram delivered from each host
    clock,         \* history: number of datagrams delivered so far
    acceptedAt,    \* history: clock value when a host's record was appended
    steps,         \* history: the steps async_discover has performed, in order
    sent,          \* datagrams handed to transport.sendto, in order
    handlerExc,    \* exception that left the last datagram_received call, or None
    client,        \* the IndevoltAPI instance: host, port, base_url, timeout
    rpcPc,         \* position of the RPC call: "idle", "waiting", "done"
    rpcCall,       \* the operation being called and its endpoint
    requests,      \* HTTP requests issued by the current call
    http,          \* what the HTTP layer answered to the current request
    rpcResult      \* what the call gave its caller: a value or an exception

discVars == <<pc, sock, transport, timerFired, probes, devices, received_ips,
              outcome, result, raised, first, clock, acceptedAt,
              steps, sent, handlerExc>>
rpcVars == <<client, rpcPc, rpcCall, requests, http, rpcResult>>
vars == <<pc, sock, transport, timerFired, probes, devices, received_ips,
          outcome, result, raised, first, clock, acceptedAt,
          steps, sent, handlerExc,
          client, rpcPc, rpcCall, requests, http, rpcResult>>

(***************************************************************************)
(* Bounds and input domains                                                *)
(***************************************************************************)
MaxDatagrams == 3

Hosts == {"10.0.0.5", "10.0.0.6"}
SrcPorts == {8099, 40000}

None == "<None>"

DISCOVERY_PORT == 10000
BROADCAST_PORT == 8099
DEFAULT_PORT == 8080
DISCOVERY_MESSAGE == "AT+IGDEVICEIP"
BROADCAST_ADDR == <<"255.255.255.255", BROADCAST_PORT>>

\* Keys a device's JSON object may carry, and the value each carries here.
Keys == {"port", "name", "sn", "host"}
ValueOf(k) == CASE k = "port" -> 9090
                [] k = "name" -> "Foo"
                [] k = "sn"   -> "SN1"
                [] k = "host" -> "192.168.1.9"

EmptyObj == [k \in {} |-> None]
Objects == {[k \in D |-> ValueOf(k)] : D \in SUBSET Keys}

\* A datagram body: bytes that are not UTF-8, text that is not JSON (the
\* empty body included), a JSON value that is not an object, a JSON object.
Payloads ==
    {[kind |-> k, obj |-> EmptyObj] : k \in {"badutf8", "badjson", "empty", "array"}}
    \cup {[kind |-> "object", obj |-> o] : o \in Objects}
NoData == [kind |-> "none", obj |-> EmptyObj]

(***************************************************************************)
(* DiscoveredDevice and DeviceDiscoveryProtocol.datagram_received          *)
(***************************************************************************)
\* The named parameters of DiscoveredDevice.__init__ that a **kwargs key
\* can collide with ("port" and "name" are filtered out by the caller).
InitParams == {"self", "host", "port", "name"}

DiscoveredDevice(host, port, name, kwargs) ==
    [host |-> host, port |-> port, name |-> name, metadata |-> kwargs]

\* json.loads(data.decode("utf-8")): the exception raised, or None.
LoadsError(data) ==
    CASE data.kind = "badutf8" -> "UnicodeDecodeError"
      [] data.kind \in {"badjson", "empty"} -> "JSONDecodeError"
      [] OTHER -> None

\* dict.get(key, default)
Get(obj, key, default) == IF key \in DOMAIN obj THEN obj[key] ELSE default

\* {k: v for k, v in response.items() if k not in ["port", "name"]}
Extras(obj) == [k \in (DOMAIN obj) \ {"port", "name"} |-> obj[k]]

\* What BuildDevice carries when the handler raised before building one.
NoDevice == [host |-> None, port |-> 0, name |-> None, metadata |-> EmptyObj]

\* BuildDevice with "except json.JSONDecodeError" only: bytes that are not
\* UTF-8 leave the handler as an exception.
BuildDevice_NoUnicodeCatch(host, data) ==
    IF LoadsError(data) = "JSONDecodeError"
    THEN [exc |-> None, device |-> DiscoveredDevice(host, DEFAULT_PORT, None, EmptyObj)]
    ELSE IF LoadsError(data) # None
    THEN [exc |-> LoadsError(data), device |-> NoDevice]
    ELSE IF data.kind # "object"
    THEN [exc |-> "AttributeError", device |-> NoDevice]
    ELSE IF (DOMAIN Extras(data.obj)) \cap InitParams # {}
    THEN [exc |-> "TypeError", device |-> NoDevice]
    ELSE [exc |-> None,
          device |-> DiscoveredDevice(host, Get(data.obj, "port", DEFAULT_PORT),
                                      Get(data.obj, "name", None), Extras(data.obj))]

\* The try/except/else of datagram_received: the device built from a
\* datagram, or the exception that leaves the handler. A JSON value that is
\* not an object has no .get (AttributeError); an object key that names a
\* parameter of __init__ is passed twice (TypeError).
BuildDevice(host, data) ==
    IF LoadsError(data) \in {"JSONDecodeError", "UnicodeDecodeError"}
    THEN [exc |-> None, device |-> DiscoveredDevice(host, DEFAULT_PORT, None, EmptyObj)]
    ELSE IF data.kind # "object"
    THEN [exc |-> "AttributeError", device |-> NoDevice]
    ELSE IF (DOMAIN Extras(data.obj)) \cap InitParams # {}
    THEN [exc |-> "TypeError", device |-> NoDevice]
    ELSE [exc |-> None,
          device |-> DiscoveredDevice(host, Get(data.obj, "port", DEFAULT_PORT),
                                      Get(data.obj, "name", None), Extras(data.obj))]

\* AppendDevice inserting at the head of the list.
AppendDevice_Front(devs, device) == <<device>> \o devs

\* self.devices.append(device)
AppendDevice(devs, device) == Append(devs, device)

\* if host in self.received_ips: return
IsDuplicate(host, seen) == host \in seen

\* SleepReady with an early exit as soon as a device has answered.
SleepReady_EarlyExit == timerFired \/ devices # <<>>

\* await asyncio.sleep(timeout) completes when its timer has expired.
SleepReady == timerFired

\* FinallyClose without the close.
FinallyClose_Skip(s) == s

\* finally: if not sock._closed: sock.close()
FinallyClose(s) == IF s # "closed" THEN "closed" ELSE s

\* Delivering once a transport exists, whether or not it was closed.
Delivering_AfterClose == pc \in {"sleep", "return", "done"} /\ transport # "none"

\* The event loop calls datagram_received only while the coroutine is
\* suspended in the sleep, between create_datagram_endpoint and
\* transport.close().
Delivering == pc = "sleep" /\ transport = "open"

DiscInit ==
    /\ pc = "socket"
    /\ sock = "none"
    /\ transport = "none"
    /\ timerFired = FALSE
    /\ probes = 0
    /\ devices = <<>>
    /\ received_ips = {}
    /\ outcome = "running"
    /\ result = <<>>
    /\ raised = None
    /\ first = [h \in Hosts |-> NoData]
    /\ clock = 0
    /\ acceptedAt = [h \in Hosts |-> 0]
    /\ steps = <<>>
    /\ sent = <<>>
    /\ handlerExc = None

\* socket.socket(...) and the two setsockopt calls, outside any try.
SocketSetup ==
    /\ pc = "socket"
    /\ \/ /\ sock' = "open"
          /\ pc' = "bind"
          /\ UNCHANGED <<outcome, raised>>
       \/ /\ sock' \in {"none", "open"}   \* socket() failed, or setsockopt did
          /\ pc' = "done"
          /\ outcome' = "raised"
          /\ raised' = "OSError"
    /\ UNCHANGED <<transport, timerFired, probes, devices, received_ips, result,
                   first, clock, acceptedAt, steps, sent, handlerExc, rpcVars>>

BindOk ==
    /\ pc = "bind"
    /\ pc' = "endpoint"
    /\ steps' = Append(steps, "bind")
    /\ UNCHANGED <<sock, transport, timerFired, probes, devices, received_ips,
                   outcome, result, raised, first, clock, acceptedAt, sent,
                   handlerExc, rpcVars>>

\* BindFail that logs the error and carries on without returning.
BindFail_FallThrough ==
    /\ pc = "bind"
    /\ pc' = "endpoint"
    /\ steps' = Append(steps, "bind_failed")
    /\ UNCHANGED <<sock, transport, timerFired, probes, devices, received_ips,
                   outcome, result, raised, first, clock, acceptedAt, sent,
                   handlerExc, rpcVars>>

\* except OSError: log, sock.close(), return []
BindFail ==
    /\ pc = "bind"
    /\ sock' = "closed"
    /\ result' = <<>>
    /\ outcome' = "returned"
    /\ pc' = "done"
    /\ steps' = Append(steps, "bind_failed")
    /\ UNCHANGED <<transport, timerFired, probes, devices, received_ips,
                   raised, first, clock, acceptedAt, sent, handlerExc, rpcVars>>

CreateEndpoint ==
    /\ pc = "endpoint"
    /\ transport' = "open"
    /\ pc' = "send"
    /\ steps' = Append(steps, "endpoint")
    /\ UNCHANGED <<sock, timerFired, probes, devices, received_ips,
                   outcome, result, raised, first, clock, acceptedAt, sent,
                   handlerExc, rpcVars>>

\* SendProbe that sends the message a second time for good measure.
SendProbe_Twice ==
    /\ pc = "send"
    /\ probes' = probes + 2
    /\ sent' = sent \o <<[data |-> DISCOVERY_MESSAGE, addr |-> BROADCAST_ADDR],
                         [data |-> DISCOVERY_MESSAGE, addr |-> BROADCAST_ADDR]>>
    /\ pc' = "sleep"
    /\ steps' = Append(steps, "probe")
    /\ UNCHANGED <<sock, transport, timerFired, devices, received_ips,
                   outcome, result, raised, first, clock, acceptedAt,
                   handlerExc, rpcVars>>

\* transport.sendto(DISCOVERY_MESSAGE, BROADCAST_ADDR)
SendProbe ==
    /\ pc = "send"
    /\ probes' = probes + 1
    /\ sent' = Append(sent, [data |-> DISCOVERY_MESSAGE, addr |-> BROADCAST_ADDR])
    /\ pc' = "sleep"
    /\ steps' = Append(steps, "probe")
    /\ UNCHANGED <<sock, transport, timerFired, devices, received_ips,
                   outcome, result, raised, first, clock, acceptedAt,
                   handlerExc, rpcVars>>

\* An exception out of create_datagram_endpoint or sendto:
\* except Exception: log, return []; then the finally clause.
ListenError ==
    /\ pc \in {"endpoint", "send"}
    /\ result' = <<>>
    /\ outcome' = "returned"
    /\ sock' = FinallyClose(sock)
    /\ pc' = "done"
    /\ steps' = Append(steps, "error_return")
    /\ UNCHANGED <<transport, timerFired, probes, devices, received_ips,
                   raised, first, clock, acceptedAt, sent, handlerExc, rpcVars>>

TimerExpires ==
    /\ pc = "sleep"
    /\ ~timerFired
    /\ timerFired' = TRUE
    /\ steps' = Append(steps, "timer")
    /\ UNCHANGED <<pc, sock, transport, probes, devices, received_ips,
                   outcome, result, raised, first, clock, acceptedAt, sent,
                   handlerExc, rpcVars>>

\* DatagramReceived that marks the host as seen before parsing the body.
DatagramReceived_MarkFirst(data, addr) ==
    /\ Delivering
    /\ clock < MaxDatagrams
    /\ LET host == addr[1]
           built == BuildDevice(host, data)
       IN /\ clock' = clock + 1
          /\ first' = IF first[host] = NoData THEN [first EXCEPT ![host] = data] ELSE first
          /\ IF IsDuplicate(host, received_ips)
             THEN /\ handlerExc' = None
                  /\ UNCHANGED <<devices, received_ips, acceptedAt>>
             ELSE IF built.exc # None
             THEN /\ handlerExc' = built.exc
                  /\ received_ips' = received_ips \cup {host}
                  /\ UNCHANGED <<devices, acceptedAt>>
             ELSE /\ handlerExc' = None
                  /\ devices' = AppendDevice(devices, built.device)
                  /\ received_ips' = received_ips \cup {host}
                  /\ acceptedAt' = [acceptedAt EXCEPT ![host] = clock + 1]
    /\ UNCHANGED <<pc, sock, transport, timerFired, probes, outcome, result,
                   raised, steps, sent, rpcVars>>

\* The event loop delivers one datagram while the coroutine is suspended:
\* the whole of datagram_received. An exception raised while building the
\* device leaves the handler before the append and the add.
DatagramReceived(data, addr) ==
    /\ Delivering
    /\ clock < MaxDatagrams
    /\ LET host == addr[1]
           built == BuildDevice(host, data)
       IN /\ clock' = clock + 1
          /\ first' = IF first[host] = NoData THEN [first EXCEPT ![host] = data] ELSE first
          /\ IF IsDuplicate(host, received_ips)
             THEN /\ handlerExc' = None
                  /\ UNCHANGED <<devices, received_ips, acceptedAt>>
             ELSE IF built.exc # None
             THEN /\ handlerExc' = built.exc
                  /\ UNCHANGED <<devices, received_ips, acceptedAt>>
             ELSE /\ handlerExc' = None
                  /\ devices' = AppendDevice(devices, built.device)
                  /\ received_ips' = received_ips \cup {host}
                  /\ acceptedAt' = [acceptedAt EXCEPT ![host] = clock + 1]
    /\ UNCHANGED <<pc, sock, transport, timerFired, probes, outcome, result,
                   raised, steps, sent, rpcVars>>

\* asyncio.sleep returns; transport.close()
CloseTransport ==
    /\ pc = "sleep"
    /\ SleepReady
    /\ transport' = "closed"
    /\ pc' = "return"
    /\ steps' = Append(steps, "close")
    /\ UNCHANGED <<sock, timerFired, probes, devices, received_ips,
                   outcome, result, raised, first, clock, acceptedAt, sent,
                   handlerExc, rpcVars>>

\* return protocol.devices; then the finally clause.
ReturnDevices ==
    /\ pc = "return"
    /\ result' = devices
    /\ outcome' = "returned"
    /\ sock' = FinallyClose(sock)
    /\ pc' = "done"
    /\ steps' = Append(steps, "return")
    /\ UNCHANGED <<transport, timerFired, probes, devices, received_ips,
                   raised, first, clock, acceptedAt, sent, handlerExc, rpcVars>>

\* The task is cancelled while suspended in the sleep: CancelledError is
\* not an Exception, so only the finally clause runs.
Cancelled ==
    /\ pc = "sleep"
    /\ ~timerFired
    /\ outcome' = "raised"
    /\ raised' = "CancelledError"
    /\ sock' = FinallyClose(sock)
    /\ pc' = "done"
    /\ steps' = Append(steps, "cancelled")
    /\ UNCHANGED <<transport, timerFired, probes, devices, received_ips,
                   result, first, clock, acceptedAt, sent, handlerExc, rpcVars>>

DiscNext ==
    \/ SocketSetup
    \/ BindOk
    \/ BindFail
    \/ CreateEndpoint
    \/ SendProbe
    \/ ListenError
    \/ TimerExpires
    \/ \E data \in Payloads, h \in Hosts, sp \in SrcPorts : DatagramReceived(data, <<h, sp>>)
    \/ CloseTransport
    \/ ReturnDevices
    \/ Cancelled

(***************************************************************************)
(* IndevoltAPI: fetch_data, set_data, get_config                           *)
(***************************************************************************)
MaxPoints == 2

\* Python values given as points and values: an int, or a str held as its
\* sequence of characters.
PyInt(n) == [ty |-> "int", n |-> n, s |-> <<>>]
PyStr(chars) == [ty |-> "str", n |-> 0, s |-> chars]
PyValues == {PyInt(7101), PyInt(16), PyStr(<<"7", "1", "0", "1">>),
             PyStr(<<"-", "5">>), PyStr(<<"a", "b">>), PyStr(<<>>)}

Digits == <<"0", "1", "2", "3", "4", "5", "6", "7", "8", "9">>
IsDigit(c) == \E d \in 1..10 : Digits[d] = c
DigitValue(c) == (CHOOSE d \in 1..10 : Digits[d] = c) - 1

RECURSIVE DigitsValue(_)
DigitsValue(chars) ==
    IF chars = <<>> THEN 0
    ELSE 10 * DigitsValue(SubSeq(chars, 1, Len(chars) - 1)) + DigitValue(chars[Len(chars)])

AllDigits(chars) == chars # <<>> /\ \A i \in 1..Len(chars) : IsDigit(chars[i])

\* int(item): an int is itself; a str is an optional sign and decimal
\* digits; anything else raises ValueError.
IntOk(x) ==
    \/ x.ty = "int"
    \/ /\ x.ty = "str"
       /\ x.s # <<>>
       /\ IF x.s[1] \in {"-", "+"} THEN AllDigits(Tail(x.s)) ELSE AllDigits(x.s)
IntOf(x) ==
    IF x.ty = "int" THEN x.n
    ELSE IF x.s[1] = "-" THEN 0 - DigitsValue(Tail(x.s))
    ELSE IF x.s[1] = "+" THEN DigitsValue(Tail(x.s))
    ELSE DigitsValue(x.s)

\* An argument that is either one value or a list of values.
NoValue == [ty |-> "none", n |-> 0, s |-> <<>>]
Scalar(x) == [isList |-> FALSE, value |-> x, items |-> <<>>]
List(xs) == [isList |-> TRUE, value |-> NoValue, items |-> xs]
NoArg == [isList |-> FALSE, value |-> NoValue, items |-> <<>>]
SeqsUpTo(S, n) == UNION {[1..k -> S] : k \in 0..n}
Args == {Scalar(x) : x \in PyValues} \cup {List(xs) : xs \in SeqsUpTo(PyValues, MaxPoints)}

\* AsList written as list(t): a str becomes the list of its characters.
AsList_ListOf(arg) ==
    IF arg.isList THEN arg.items
    ELSE IF arg.value.ty = "str"
    THEN [i \in 1..Len(arg.value.s) |-> PyStr(<<arg.value.s[i]>>)]
    ELSE <<arg.value>>

\* if not isinstance(t, list): t = [t]
AsList(arg) == IF ~arg.isList THEN <<arg.value>> ELSE arg.items

\* [int(item) for item in t]
IntList(items) == [i \in 1..Len(items) |-> IntOf(items[i])]
AllIntOk(items) == \A i \in 1..Len(items) : IntOk(items[i])

\* Exception classes and the classes each is an instance of. The builtin
\* TimeoutError is asyncio.TimeoutError (Python 3.11 and later).
Ancestors(cls) ==
    CASE cls = "TimeoutError" -> {"TimeoutError", "OSError", "Exception"}
      [] cls = "ServerTimeoutError" ->
            {"ServerTimeoutError", "ServerConnectionError", "ClientConnectionError",
             "ClientError", "TimeoutError", "OSError", "Exception"}
      [] cls = "ClientConnectorError" ->
            {"ClientConnectorError", "ClientOSError", "ClientConnectionError",
             "ClientError", "OSError", "Exception"}
      [] cls = "ServerDisconnectedError" ->
            {"ServerDisconnectedError", "ServerConnectionError",
             "ClientConnectionError", "ClientError", "Exception"}
      [] cls = "ContentTypeError" ->
            {"ContentTypeError", "ClientResponseError", "ClientError", "Exception"}
      [] cls = "JSONDecodeError" -> {"JSONDecodeError", "ValueError", "Exception"}
      [] cls = "ValueError" -> {"ValueError", "Exception"}
      [] cls = "APIException" -> {"APIException", "Exception"}
      [] cls = "TimeOutException" -> {"TimeOutException", "Exception"}
      [] OTHER -> {"Exception"}

TransportErrors == {"TimeoutError", "ServerTimeoutError", "ClientConnectorError",
                    "ServerDisconnectedError"}
Statuses == {200, 404, 500}

\* Response bodies: one whose Content-Type is not JSON, one declared JSON
\* that does not parse, and JSON documents.
Bodies == {"wrongtype", "notjson", "sp2000", "sf2000", "other", "notype", "nodevice"}
JsonOf(body) ==
    CASE body = "sp2000" -> [device |-> [type |-> "CMS-SP2000"]]
      [] body = "sf2000" -> [device |-> [type |-> "CMS-SF2000"]]
      [] body = "other" -> [device |-> [type |-> "CMS-SP1000"]]
      [] body = "notype" -> [device |-> [sn |-> "SN1"]]
      [] OTHER -> [result |-> "ok"]

\* await response.json(): ContentTypeError (an aiohttp.ClientError) when the
\* Content-Type is not JSON, json.JSONDecodeError when the text does not parse.
JsonError(body) ==
    CASE body = "wrongtype" -> "ContentTypeError"
      [] body = "notjson" -> "JSONDecodeError"
      [] OTHER -> None

HttpOutcomes ==
    {[kind |-> "exc", cls |-> c, status |-> 0, body |-> None] : c \in TransportErrors}
    \cup {[kind |-> "response", cls |-> None, status |-> st, body |-> b] :
             st \in Statuses, b \in Bodies}
NoHttp == [kind |-> None, cls |-> None, status |-> 0, body |-> None]

Exc(cls, text, endpoint, status, cause) ==
    [cls |-> cls, text |-> text, endpoint |-> endpoint, status |-> status, cause |-> cause]
NoExc == Exc(None, None, None, 0, None)
Returns(value) == [kind |-> "return", value |-> value, exc |-> NoExc]
Raises(exc) == [kind |-> "raise", value |-> EmptyObj, exc |-> exc]
NoResult == [kind |-> None, value |-> EmptyObj, exc |-> NoExc]

\* An exception raised by the HTTP layer or by response.json().
LibExc(cls) == Exc(cls, None, None, 0, None)

\* Except with the aiohttp.ClientError clause tried first.
Except_ClientErrorFirst(endpoint, e) ==
    IF "ClientError" \in Ancestors(e.cls)
    THEN Raises(Exc("APIException", "Network error", endpoint, 0, e.cls))
    ELSE IF "TimeoutError" \in Ancestors(e.cls)
    THEN Raises(Exc("TimeOutException", "Request timed out", endpoint, 0, None))
    ELSE Raises(e)

\* The except clauses of _request and get_config, tried in order, on an
\* exception e raised inside the try block; one that matches neither
\* clause leaves the call as it is.
Except(endpoint, e) ==
    IF "TimeoutError" \in Ancestors(e.cls)
    THEN Raises(Exc("TimeOutException", "Request timed out", endpoint, 0, None))
    ELSE IF "ClientError" \in Ancestors(e.cls)
    THEN Raises(Exc("APIException", "Network error", endpoint, 0, e.cls))
    ELSE Raises(e)

\* StatusOk that lets every status below 500 through.
StatusOk_Below500(status) == status < 500

\* if response.status != 200: raise APIException(...)
StatusOk(status) == status = 200

\* raise APIException(f"HTTP status error: {response.status}")
StatusError(status) == Exc("APIException", "HTTP status error", None, status, None)

\* The try block of _request, given what the HTTP layer answered.
RequestOutcome(endpoint, h) ==
    IF h.kind = "exc" THEN Except(endpoint, LibExc(h.cls))
    ELSE IF ~StatusOk(h.status) THEN Except(endpoint, StatusError(h.status))
    ELSE IF JsonError(h.body) # None THEN Except(endpoint, LibExc(JsonError(h.body)))
    ELSE Returns(JsonOf(h.body))

\* SECOND_GENERATION without the SF model.
SECOND_GENERATION_OnlySP == {"CMS-SP2000"}

SECOND_GENERATION == {"CMS-SP2000", "CMS-SF2000"}

\* data["device"]["generation"] = 2 if device_type in [...] else 1
Enrich(data) ==
    IF "device" \in DOMAIN data /\ "type" \in DOMAIN data.device
    THEN [data EXCEPT !.device =
            [k \in (DOMAIN data.device) \cup {"generation"} |->
                IF k = "generation"
                THEN (IF data.device.type \in SECOND_GENERATION THEN 2 ELSE 1)
                ELSE data.device[k]]]
    ELSE data

\* The try block of get_config.
GetConfigOutcome(h) ==
    IF h.kind = "exc" THEN Except("Sys.GetConfig", LibExc(h.cls))
    ELSE IF ~StatusOk(h.status) THEN Except("Sys.GetConfig", StatusError(h.status))
    ELSE IF JsonError(h.body) # None THEN Except("Sys.GetConfig", LibExc(JsonError(h.body)))
    ELSE Returns(Enrich(JsonOf(h.body)))

\* JSON values of a request payload: an int, or a list of ints.
JInt(n) == [ty |-> "int", n |-> n, items |-> <<>>]
JList(ns) == [ty |-> "list", n |-> 0, items |-> ns]

\* {"t": t_int}: the payload dict, keys in insertion order.
FetchConfig(t_int) == <<[key |-> "t", val |-> JList(t_int)]>>

\* SetDataConfig with function code 6.
SetDataConfig_Code6(t_int, v_int) ==
    <<[key |-> "f", val |-> JInt(6)],
      [key |-> "t", val |-> JInt(t_int)],
      [key |-> "v", val |-> JList(v_int)]>>

\* {"f": 16, "t": t_int, "v": v_int}
SetDataConfig(t_int, v_int) ==
    <<[key |-> "f", val |-> JInt(16)],
      [key |-> "t", val |-> JInt(t_int)],
      [key |-> "v", val |-> JList(v_int)]>>

\* Text is held as a sequence of tokens. json.dumps separates items with
\* "," " " and keys from values with ":" " ".
RECURSIVE Join(_, _)
Join(parts, sep) ==
    IF parts = <<>> THEN <<>>
    ELSE IF Len(parts) = 1 THEN parts[1]
    ELSE parts[1] \o sep \o Join(Tail(parts), sep)

DumpsValue(v) ==
    IF v.ty = "int" THEN <<ToString(v.n)>>
    ELSE <<"[">> \o Join([i \in 1..Len(v.items) |-> <<ToString(v.items[i])>>],
                         <<",", " ">>) \o <<"]">>

\* json.dumps(config_data)
Dumps(config) ==
    <<"{">> \o Join([i \in 1..Len(config) |->
                        <<"\"", config[i].key, "\"", ":", " ">> \o DumpsValue(config[i].val)],
                    <<",", " ">>) \o <<"}">>

\* .replace(" ", "")
RemoveSpaces(text) == SelectSeq(text, LAMBDA c : c # " ")

DEFAULT_TIMEOUT == 10

\* IndevoltAPI.__init__
IndevoltAPI(host, port, timeout) ==
    [host |-> host, port |-> port,
     base_url |-> <<"http://", host, ":", ToString(port), "/rpc">>,
     timeout |-> timeout]

\* Clients built directly and by from_discovered_device (the record's port).
Clients == {IndevoltAPI("10.0.0.5", DEFAULT_PORT, DEFAULT_TIMEOUT),
            IndevoltAPI("10.0.0.6", 9090, DEFAULT_TIMEOUT)}

\* url = f"{self.base_url}/{endpoint}?config={config_param}", POSTed
PostRequest(api, endpoint, config) ==
    [method |-> "POST", endpoint |-> endpoint, config |-> config,
     url |-> api.base_url \o <<"/", endpoint, "?config=">> \o RemoveSpaces(Dumps(config))]

\* url = f"{self.base_url}/Sys.GetConfig", fetched with GET
GetRequest(api, endpoint) ==
    [method |-> "GET", endpoint |-> endpoint, config |-> <<>>,
     url |-> api.base_url \o <<"/", endpoint>>]

Call(op, endpoint, t, v) == [op |-> op, endpoint |-> endpoint, t |-> t, v |-> v]
NoCall == Call(None, None, NoArg, NoArg)

RpcInit ==
    /\ client \in Clients
    /\ rpcPc = "idle"
    /\ rpcCall = NoCall
    /\ requests = <<>>
    /\ http = NoHttp
    /\ rpcResult = NoResult

\* fetch_data(t) up to the point where _request awaits the response.
CallFetchData(t) ==
    /\ rpcPc = "idle"
    /\ rpcCall' = Call("fetch_data", "Indevolt.GetData", t, NoArg)
    /\ IF AllIntOk(AsList(t))
       THEN /\ requests' = Append(requests,
                  PostRequest(client, "Indevolt.GetData", FetchConfig(IntList(AsList(t)))))
            /\ rpcPc' = "waiting"
            /\ UNCHANGED rpcResult
       ELSE /\ rpcResult' = Raises(LibExc("ValueError"))
            /\ rpcPc' = "done"
            /\ UNCHANGED requests
    /\ UNCHANGED <<client, http, discVars>>

\* The longest prefix of items that int() accepts.
RECURSIVE ValidPrefix(_)
ValidPrefix(items) ==
    IF items = <<>> \/ ~IntOk(items[1]) THEN <<>>
    ELSE <<items[1]>> \o ValidPrefix(Tail(items))

\* CallSetData that writes the values coerced so far before it fails on
\* the one that cannot be coerced.
CallSetData_WriteThenFail(t, v) ==
    /\ rpcPc = "idle"
    /\ rpcCall' = Call("set_data", "Indevolt.SetData", Scalar(t), v)
    /\ IF IntOk(t) /\ AllIntOk(AsList(v))
       THEN /\ requests' = Append(requests,
                  PostRequest(client, "Indevolt.SetData",
                              SetDataConfig(IntOf(t), IntList(AsList(v)))))
            /\ rpcPc' = "waiting"
            /\ UNCHANGED rpcResult
       ELSE /\ rpcResult' = Raises(LibExc("ValueError"))
            /\ rpcPc' = "done"
            /\ requests' = IF IntOk(t) /\ ValidPrefix(AsList(v)) # <<>>
                           THEN Append(requests,
                                  PostRequest(client, "Indevolt.SetData",
                                      SetDataConfig(IntOf(t), IntList(ValidPrefix(AsList(v))))))
                           ELSE requests
    /\ UNCHANGED <<client, http, discVars>>

\* set_data(t, v) up to the point where _request awaits the response.
CallSetData(t, v) ==
    /\ rpcPc = "idle"
    /\ rpcCall' = Call("set_data", "Indevolt.SetData", Scalar(t), v)
    /\ IF IntOk(t) /\ AllIntOk(AsList(v))
       THEN /\ requests' = Append(requests,
                  PostRequest(client, "Indevolt.SetData",
                              SetDataConfig(IntOf(t), IntList(AsList(v)))))
            /\ rpcPc' = "waiting"
            /\ UNCHANGED rpcResult
       ELSE /\ rpcResult' = Raises(LibExc("ValueError"))
            /\ rpcPc' = "done"
            /\ UNCHANGED requests
    /\ UNCHANGED <<client, http, discVars>>

\* get_config() up to the point where session.get awaits the response.
CallGetConfig ==
    /\ rpcPc = "idle"
    /\ rpcCall' = Call("get_config", "Sys.GetConfig", NoArg, NoArg)
    /\ requests' = Append(requests, GetRequest(client, "Sys.GetConfig"))
    /\ rpcPc' = "waiting"
    /\ UNCHANGED <<client, http, rpcResult, discVars>>

\* HttpCompletes that sends the request once more after a timeout.
HttpCompletes_RetryOnTimeout(h) ==
    /\ rpcPc = "waiting"
    /\ http' = h
    /\ IF h.kind = "exc" /\ "TimeoutError" \in Ancestors(h.cls) /\ Len(requests) < 2
       THEN /\ requests' = Append(requests, requests[1])
            /\ UNCHANGED <<rpcPc, rpcResult>>
       ELSE /\ rpcResult' = IF rpcCall.op = "get_config"
                            THEN GetConfigOutcome(h)
                            ELSE RequestOutcome(rpcCall.endpoint, h)
            /\ rpcPc' = "done"
            /\ UNCHANGED requests
    /\ UNCHANGED <<client, rpcCall, discVars>>

\* The HTTP layer answers and the call completes.
HttpCompletes(h) ==
    /\ rpcPc = "waiting"
    /\ http' = h
    /\ rpcResult' = IF rpcCall.op = "get_config"
                    THEN GetConfigOutcome(h)
                    ELSE RequestOutcome(rpcCall.endpoint, h)
    /\ rpcPc' = "done"
    /\ UNCHANGED <<client, rpcCall, requests, discVars>>

\* The caller is free to make its next call on the same client.
NextCall ==
    /\ rpcPc = "done"
    /\ rpcPc' = "idle"
    /\ rpcCall' = NoCall
    /\ requests' = <<>>
    /\ http' = NoHttp
    /\ rpcResult' = NoResult
    /\ UNCHANGED <<client, discVars>>

RpcNext ==
    \/ \E t \in Args : CallFetchData(t)
    \/ \E t \in PyValues, v \in Args : CallSetData(t, v)
    \/ CallGetConfig
    \/ \E h \in HttpOutcomes : HttpCompletes(h)
    \/ NextCall

Init == DiscInit /\ RpcInit

Spec == Init /\ [][DiscNext]_vars

SpecRpc == Init /\ [][RpcNext]_vars

(***************************************************************************)
(* Properties of the discovery run                                         *)
(***************************************************************************)
RecordsOf(devs, h) == {i \in 1..Len(devs) : devs[i].host = h}

\* C1: the device list holds at most one record per source host, and that
\* record is the one built from the first datagram received from that host.
C1_FirstDatagramWins ==
    \A h \in Hosts :
        /\ Cardinality(RecordsOf(devices, h)) <= 1
        /\ \A i \in RecordsOf(devices, h) :
              /\ BuildDevice(h, first[h]).exc = None
              /\ devices[i] = BuildDevice(h, first[h]).device

\* C2 as stated: no run of async_discover returns before the timer expires.
C2_NeverReturnsBeforeTimeout == outcome = "returned" => timerFired

\* C2 as amended: a run that has sent its probe returns only after the timer
\* has expired; a run that returns earlier sent no probe and returns [].
C2_ReturnAfterTimeoutOnceListening ==
    outcome = "returned" => (timerFired \/ (probes = 0 /\ result = <<>>))

C2_Witness ==
    /\ outcome = "returned"
    /\ probes = 1
    /\ timerFired
    /\ clock >= 2
    /\ Len(result) >= 1

\* C3: async_discover never propagates an exception: every finished run has
\* returned a list, empty when an error occurred or no datagram arrived.
C3_NeverRaises ==
    pc = "done" =>
        /\ outcome = "returned"
        /\ (clock = 0 \/ transport # "closed") => result = <<>>

\* C4: whenever async_discover has returned, the socket is closed.
C4_SocketClosedOnReturn == outcome = "returned" => sock = "closed"

C4_Witness ==
    /\ outcome = "returned"
    /\ transport = "closed"
    /\ sock = "closed"
    /\ Len(result) >= 1

\* C5: a first datagram that is not UTF-8 or not JSON still records the
\* device, with the sender as host, port 8080, no name and empty metadata.
C5_MalformedDegrades ==
    \A h \in Hosts :
        first[h].kind \in {"badutf8", "badjson", "empty"} =>
            /\ h \in received_ips
            /\ \E i \in 1..Len(devices) :
                  devices[i] = [host |-> h, port |-> 8080, name |-> None,
                                metadata |-> EmptyObj]

C5_Witness ==
    \E h \in Hosts :
        /\ first[h].kind = "badutf8"
        /\ \E i \in 1..Len(devices) : devices[i].host = h /\ devices[i].port = 8080

\* C6: a first datagram that is a JSON object, with any keys, adds the record
\* with the sender as host, the object's port (or 8080), its name (or none)
\* and every other key as metadata.
C6_ObjectRecord ==
    \A h \in Hosts :
        first[h].kind = "object" =>
            \E i \in 1..Len(devices) :
                /\ devices[i].host = h
                /\ devices[i].port = (IF "port" \in DOMAIN first[h].obj
                                      THEN first[h].obj["port"] ELSE 8080)
                /\ devices[i].name = (IF "name" \in DOMAIN first[h].obj
                                      THEN first[h].obj["name"] ELSE None)
                /\ DOMAIN devices[i].metadata = (DOMAIN first[h].obj) \ {"port", "name"}
                /\ \A k \in DOMAIN devices[i].metadata :
                      devices[i].metadata[k] = first[h].obj[k]

\* C10: the returned list is ordered by first acceptance: A precedes B
\* exactly when A's accepted datagram was received before B's.
C10_OrderedByAcceptance ==
    outcome = "returned" =>
        \A i, j \in 1..Len(result) :
            (i < j) <=> (acceptedAt[result[i].host] < acceptedAt[result[j].host])

C10_Witness ==
    /\ outcome = "returned"
    /\ Len(result) = 2
    /\ clock >= 3
    /\ acceptedAt[result[2].host] - acceptedAt[result[1].host] >= 2

(***************************************************************************)
(* Properties of the RPC client                                            *)
(***************************************************************************)
RpcOps == {"fetch_data", "set_data", "get_config"}
Answered(op) == rpcPc = "done" /\ rpcCall.op = op /\ http.kind = "response"
Failed(op) == rpcPc = "done" /\ rpcCall.op = op /\ http.kind = "exc"

\* C7: an HTTP 200 answer whose body cannot be parsed as JSON makes each of
\* fetch_data, set_data and get_config fail with APIException, never with
\* another exception and never with a return value.
C7_ParseFailureIsAPIException ==
    \A op \in RpcOps :
        (Answered(op) /\ http.status = 200 /\ http.body \in {"wrongtype", "notjson"}) =>
            /\ rpcResult.kind = "raise"
            /\ rpcResult.exc.cls = "APIException"

\* C8: every answer with a status other than 200 makes each of fetch_data,
\* set_data and get_config raise APIException carrying that status, and
\* return no data.
C8_StatusErrorCarriesStatus ==
    \A op \in RpcOps :
        (Answered(op) /\ http.status # 200) =>
            /\ rpcResult.kind = "raise"
            /\ rpcResult.exc.cls = "APIException"
            /\ rpcResult.exc.status = http.status
            /\ rpcResult.value = EmptyObj

C8_Witness ==
    /\ Answered("set_data")
    /\ http.status = 404
    /\ http.body = "other"
    /\ rpcResult.exc.status = 404

\* C9: a timeout raises TimeOutException naming the endpoint called; any
\* other transport error raises APIException naming that endpoint and the
\* underlying cause.
EndpointNamed(op) ==
    CASE op = "fetch_data" -> "Indevolt.GetData"
      [] op = "set_data" -> "Indevolt.SetData"
      [] op = "get_config" -> "Sys.GetConfig"

C9_TimeoutAndNetworkKinds ==
    \A op \in RpcOps :
        Failed(op) =>
            /\ rpcResult.kind = "raise"
            /\ rpcResult.exc.endpoint = EndpointNamed(op)
            /\ IF http.cls \in {"TimeoutError", "ServerTimeoutError"}
               THEN rpcResult.exc.cls = "TimeOutException"
               ELSE /\ rpcResult.exc.cls = "APIException"
                    /\ rpcResult.exc.cause = http.cls

C9_Witness ==
    /\ Failed("fetch_data")
    /\ http.cls = "ServerTimeoutError"
    /\ rpcResult.exc.cls = "TimeOutException"
    /\ rpcResult.exc.endpoint = "Indevolt.GetData"

(***************************************************************************)
(* Properties of the discovery run: abort, step order, handler, close      *)
(***************************************************************************)
Did(step) == \E i \in 1..Len(steps) : steps[i] = step
Prefixes(sq) == {SubSeq(sq, 1, k) : k \in 0..Len(sq)}
ProbeDatagram == [data |-> "AT+IGDEVICEIP", addr |-> <<"255.255.255.255", 8099>>]

\* C11: if the bind fails, async_discover returns an empty list without
\* raising, sends no probe and never enters the listen phase.
C11_BindFailureAborts ==
    Did("bind_failed") =>
        /\ steps = <<"bind_failed">>
        /\ pc = "done"
        /\ outcome = "returned"
        /\ raised = None
        /\ result = <<>>
        /\ sent = <<>>
        /\ probes = 0
        /\ transport = "none"
        /\ ~timerFired
        /\ clock = 0

C11_Witness ==
    /\ Did("bind_failed")
    /\ outcome = "returned"
    /\ sock = "closed"

C17_NewHostAlwaysAccepted ==
    /\ handlerExc = None
    /\ \A h \in Hosts :
          first[h] # NoData => Cardinality(RecordsOf(devices, h)) = 1

\* C18: once the transport is closed no datagram is handled, the list
\* returned is the protocol's devices list, and it never changes after the
\* return.
C18_NoHandlingAfterClose ==
    [][/\ transport = "closed" =>
             (devices' = devices /\ received_ips' = received_ips /\ clock' = clock)
       /\ (outcome' = "returned" /\ transport' = "closed") => result' = devices'
       /\ outcome = "returned" => result' = result]_vars

C18_Witness ==
    /\ outcome = "returned"
    /\ transport = "closed"
    /\ Len(result) = 2
    /\ result = devices

\* C19: received_ips is exactly the set of hosts of the records in devices,
\* and devices has as many entries as received_ips, also after calls of
\* datagram_received that failed part-way.
C19_SeenIffRecorded ==
    /\ received_ips = {devices[i].host : i \in 1..Len(devices)}
    /\ Len(devices) = Cardinality(received_ips)

C19_Witness ==
    /\ handlerExc = "TypeError"
    /\ Len(devices) = 1
    /\ clock >= 2

(***************************************************************************)
(* Properties of the RPC client: payloads, request count, coercion         *)
(***************************************************************************)
\* The integer each coercible input value stands for, and its decimal text.
Meaning(x) ==
    CASE x = PyInt(7101) -> [n |-> 7101, text |-> "7101"]
      [] x = PyInt(16) -> [n |-> 16, text |-> "16"]
      [] x = PyStr(<<"7", "1", "0", "1">>) -> [n |-> 7101, text |-> "7101"]
      [] x = PyStr(<<"-", "5">>) -> [n |-> 0 - 5, text |-> "-5"]
Uncoercible == {PyStr(<<"a", "b">>), PyStr(<<>>)}

Given(arg) == IF arg.isList THEN arg.items ELSE <<arg.value>>
AllCoercible(arg) == \A i \in 1..Len(Given(arg)) : Given(arg)[i] \notin Uncoercible
Numbers(arg) == [i \in 1..Len(Given(arg)) |-> Meaning(Given(arg)[i]).n]

RECURSIVE Commas(_)
Commas(xs) ==
    IF xs = <<>> THEN <<>>
    ELSE IF Len(xs) = 1 THEN <<Meaning(xs[1]).text>>
    ELSE <<Meaning(xs[1]).text, ",">> \o Commas(Tail(xs))

\* C12: a successful get_config response comes back with device.generation
\* 2 for the types CMS-SP2000 and CMS-SF2000 and 1 for any other type, and
\* the call has issued its one GET and nothing more.
C12_GenerationFromType ==
    (Answered("get_config") /\ http.status = 200
        /\ http.body \in {"sp2000", "sf2000", "other"}) =>
        /\ rpcResult.kind = "return"
        /\ rpcResult.value.device.type =
              (CASE http.body = "sp2000" -> "CMS-SP2000"
                 [] http.body = "sf2000" -> "CMS-SF2000"
                 [] http.body = "other" -> "CMS-SP1000")
        /\ rpcResult.value.device.generation =
              (IF http.body \in {"sp2000", "sf2000"} THEN 2 ELSE 1)
        /\ Len(requests) = 1
        /\ requests[1].method = "GET"

C12_Witness ==
    /\ Answered("get_config")
    /\ http.body = "sf2000"
    /\ rpcResult.kind = "return"
    /\ rpcResult.value.device.generation = 2

\* C13: fetch_data(x) and fetch_data([x]) issue the same request to
\* Indevolt.GetData with payload {"t":[int(x)]}; for a sequence the t list
\* holds the integer values in the same order and of the same length.
C13_FetchPayload ==
    (rpcCall.op = "fetch_data" /\ AllCoercible(rpcCall.t)) =>
        /\ rpcPc \in {"waiting", "done"}
        /\ requests =
             <<[method |-> "POST",
                endpoint |-> "Indevolt.GetData",
                config |-> <<[key |-> "t",
                              val |-> [ty |-> "list", n |-> 0,
                                       items |-> Numbers(rpcCall.t)]]>>,
                url |-> client.base_url
                        \o <<"/", "Indevolt.GetData", "?config=",
                             "{", "\"", "t", "\"", ":", "[">>
                        \o Commas(Given(rpcCall.t))
                        \o <<"]", "}">>]>>

C13_Witness ==
    /\ rpcCall.op = "fetch_data"
    /\ rpcCall.t = Scalar(PyStr(<<"7", "1", "0", "1">>))
    /\ Len(requests) = 1
    /\ requests[1].config[1].val.items = <<7101>>

\* C14: set_data(t, v) issues a request to Indevolt.SetData whose payload is
\* exactly {"f":16,"t":int(t),"v":[...]}, v holding the integer values in
\* input order, a single value as a one-element list.
C14_SetDataPayload ==
    (rpcCall.op = "set_data" /\ AllCoercible(rpcCall.t) /\ AllCoercible(rpcCall.v)) =>
        /\ rpcPc \in {"waiting", "done"}
        /\ requests =
             <<[method |-> "POST",
                endpoint |-> "Indevolt.SetData",
                config |-> <<[key |-> "f", val |-> [ty |-> "int", n |-> 16, items |-> <<>>]],
                             [key |-> "t", val |-> [ty |-> "int", n |-> Numbers(rpcCall.t)[1],
                                                    items |-> <<>>]],
                             [key |-> "v", val |-> [ty |-> "list", n |-> 0,
                                                    items |-> Numbers(rpcCall.v)]]>>,
                url |-> client.base_url
                        \o <<"/", "Indevolt.SetData", "?config=",
                             "{", "\"", "f", "\"", ":", "16", ",",
                             "\"", "t", "\"", ":">>
                        \o Commas(Given(rpcCall.t))
                        \o <<",", "\"", "v", "\"", ":", "[">>
                        \o Commas(Given(rpcCall.v))
                        \o <<"]", "}">>]>>

C14_Witness ==
    /\ rpcCall.op = "set_data"
    /\ rpcCall.t = Scalar(PyStr(<<"7", "1", "0", "1">>))
    /\ rpcCall.v = Scalar(PyInt(16))
    /\ Len(requests) = 1
    /\ requests[1].config[3].val.items = <<16>>

\* C15: a call whose inputs pass coercion issues exactly one HTTP request,
\* whatever the outcome: none is repeated after the answer and none is
\* skipped on a later call; the client's host, port, base URL and timeout
\* never change.
C15_OneRequestPerCall ==
    [][/\ client' = client
       /\ (rpcPc = "idle" /\ rpcPc' # "idle"
              /\ AllCoercible(rpcCall'.t) /\ AllCoercible(rpcCall'.v)) =>
             (rpcPc' = "waiting" /\ requests = <<>> /\ Len(requests') = 1)
       /\ rpcPc = "waiting" =>
             (rpcPc' = "done" /\ Len(requests) = 1 /\ requests' = requests)]_vars

C15_Witness ==
    /\ rpcPc = "done"
    /\ http.cls = "TimeoutError"
    /\ rpcResult.exc.cls = "TimeOutException"
    /\ Len(requests) = 1

\* C20: when a point or value cannot be coerced to an integer, fetch_data
\* and set_data fail without issuing any HTTP request.
C20_CoercionBeforeIO ==
    (rpcCall.op \in {"fetch_data", "set_data"}
        /\ ~(AllCoercible(rpcCall.t) /\ AllCoercible(rpcCall.v))) =>
        /\ requests = <<>>
        /\ http = NoHttp
        /\ rpcPc = "done"
        /\ rpcResult.kind = "raise"
        /\ rpcResult.exc.cls = "ValueError"

C20_Witness ==
    /\ rpcCall.op = "set_data"
    /\ rpcCall.t = Scalar(PyInt(7101))
    /\ rpcCall.v = List(<<PyInt(16), PyStr(<<"a", "b">>)>>)
    /\ requests = <<>>
    /\ rpcResult.kind = "raise"

====
